---- MODULE Spec2Model ----
(***************************************************************************)
(* State-machine model of the StudyMind-AI single-page front end:          *)
(* the navigation shell (App), the Upload, Chat and Quiz panels, the       *)
(* Sidebar and the HTTP client wrapper.  Every handler of the components   *)
(* is one action; every request handed to the HTTP client stays in         *)
(* `inflight` until the backend's response (success or failure, chosen by  *)
(* the environment) is handled by the continuation of the handler that     *)
(* issued it.  Handlers run to their first await atomically, as the        *)
(* browser's single-threaded event loop runs them.  A text is the          *)
(* sequence of its UTF-16 code units, as a JavaScript string is.           *)
(*                                                                         *)
(* Not modelled: toast notifications, console logging, the startup health  *)
(* check (it only raises a toast), the quiz download (it changes no        *)
(* state), the timestamp of a message (it is only displayed) and the       *)
(* descriptions of the model catalog (only its keys are kept).             *)
(***************************************************************************)
EXTENDS Integers, Sequences, FiniteSets, TLC

(***************************************************************************)
(* Bounds of the model.                                                    *)
(***************************************************************************)
\* longest file selection handed to the dropzone in one drop
MaxBatch == 2
\* no drop is made that could take the document list beyond this length
MaxDocs == 3
\* requests that may be awaiting a response at the same time
MaxInFlight == 2
\* no send is made that could take the chat history beyond this length
MaxMsgs == 4

(***************************************************************************)
(* Values the environment (user, file system, backend) supplies.           *)
(***************************************************************************)
\* the code units of "application/pdf", ".pdf" and "text/plain"
ApplicationPdf ==
    << 97, 112, 112, 108, 105, 99, 97, 116, 105, 111, 110, 47, 112, 100, 102 >>
DotPdf == << 46, 112, 100, 102 >>
TextPlain == << 116, 101, 120, 116, 47, 112, 108, 97, 105, 110 >>
\* the code units of the file names "notes.pdf", "ch2.PDF" and "todo.txt"
NotesPdf == << 110, 111, 116, 101, 115, 46, 112, 100, 102 >>
Ch2Pdf == << 99, 104, 50, 46, 80, 68, 70 >>
TodoTxt == << 116, 111, 100, 111, 46, 116, 120, 116 >>

\* files a user may select: the first has the type of a PDF, the second
\* only the extension (the browser gave it no type), the last is refused
Files ==
    { [name |-> NotesPdf, size |-> 1048576, type |-> ApplicationPdf],
      [name |-> Ch2Pdf,   size |-> 1536,    type |-> <<>>],
      [name |-> TodoTxt,  size |-> 12,      type |-> TextPlain] }

\* chapter lists the backend may report in an upload response
ChapterLists == { <<>>, <<"Ch1">>, <<"Ch1", "Ch2">> }
\* the labels in them
ChapterLabels == { "Ch1", "Ch2" }

\* texts typed into the chat textarea: "", form feed + no-break space, " q"
Inputs == { <<>>, << 12, 160 >>, << 32, 113 >> }

\* answers of the backend to a query
QueryResponses ==
    { [answer |-> "A1",
       sources |-> << [source |-> "notes.pdf", page |-> 1, chapter |-> "Ch1"] >>,
       model_used |-> "llama3"] }

\* answers of the backend to a quiz generation
QuizResponses == { [questions |-> "Q1", model |-> "gemini-1.5-flash"] }

\* values of the question-count input, a number input, whose value is
\* empty or a decimal number: "", "0", "11", "2.5"
NumTexts == { <<>>, << 48 >>, << 49, 49 >>, << 50, 46, 53 >> }

\* keys of the model catalogs GET /models may return, and the catalogs, as
\* the keys in the order of the response: one holds the model App starts
\* with, one does not
ModelKeys == { "gemini-1.5-flash", "llama3" }
ModelCatalogs == { << "gemini-1.5-flash", "llama3" >>, << "llama3" >> }

\* keys pressed in the chat textarea
Keys == { "Enter", "q" }

Tabs == { "upload", "chat", "quiz" }

(***************************************************************************)
(* Pure helpers.                                                           *)
(***************************************************************************)
\* JavaScript null as a request or state value
Null == "null"

\* sequences over S of length at most n
SeqsUpTo(S, n) == UNION { [1..k -> S] : k \in 0..n }

\* code units String.prototype.trim removes: TAB, LF, VT, FF, CR, SP, NBSP,
\* the other space separators (U+1680, U+2000..U+200A, U+202F, U+205F,
\* U+3000), the line and paragraph separators U+2028 and U+2029, and U+FEFF
WhiteSpace ==
    { 9, 10, 11, 12, 13, 32, 160, 5760 } \cup (8192..8202)
        \cup { 8232, 8233, 8239, 8287, 12288, 65279 }

RECURSIVE trimStart(_)
trimStart(s) ==
    IF s = <<>> THEN <<>>
    ELSE IF Head(s) \in WhiteSpace THEN trimStart(Tail(s)) ELSE s

RECURSIVE trimEnd(_)
trimEnd(s) ==
    IF s = <<>> THEN <<>>
    ELSE IF s[Len(s)] \in WhiteSpace THEN trimEnd(SubSeq(s, 1, Len(s) - 1))
    ELSE s

\* input.trim()
trim(s) == trimEnd(trimStart(s))

\* !input.trim(): the empty string is the only falsy string
IsBlankNoTrim(s) == s = <<>>
IsBlank(s) == trim(s) = <<>>

\* a number held in component state: an integer or NaN
Num(n) == [nan |-> FALSE, val |-> n]
NaN == [nan |-> TRUE, val |-> 0]

\* the code units that are digits of the radix: "0" to "9", and with
\* radix 16 also "A" to "F" and "a" to "f"
Digits(radix) ==
    IF radix = 16 THEN (48..57) \cup (65..70) \cup (97..102) ELSE 48..57
DigitVal(c) == IF c >= 97 THEN c - 87 ELSE IF c >= 65 THEN c - 55 ELSE c - 48

\* value of the longest prefix of s made of digits, continuing from acc
RECURSIVE digitsValue(_, _, _)
digitsValue(s, radix, acc) ==
    IF s = <<>> \/ Head(s) \notin Digits(radix) THEN acc
    ELSE digitsValue(Tail(s), radix, radix * acc + DigitVal(Head(s)))

\* parseInt(text): optional sign, then "0x" or "0X" and hexadecimal digits
\* or else decimal digits; NaN without a digit
parseInt(s) ==
    LET t == trimStart(s)
        \* 45 is "-", 43 is "+"
        neg == t # <<>> /\ Head(t) = 45
        unsigned == IF t # <<>> /\ Head(t) \in { 45, 43 } THEN Tail(t) ELSE t
        \* 48 is "0", 120 is "x", 88 is "X"
        hex == Len(unsigned) >= 2 /\ unsigned[1] = 48 /\ unsigned[2] \in { 120, 88 }
        radix == IF hex THEN 16 ELSE 10
        body == IF hex THEN SubSeq(unsigned, 3, Len(unsigned)) ELSE unsigned
    IN  IF body = <<>> \/ Head(body) \notin Digits(radix) THEN NaN
        ELSE Num((IF neg THEN -1 ELSE 1) * digitsValue(body, radix, 0))

RECURSIVE pow(_, _)
pow(b, e) == IF e = 0 THEN 1 ELSE b * pow(b, e - 1)

\* Math.floor(Math.log(bytes) / Math.log(k)) for bytes >= 1
RECURSIVE floorLog(_, _)
floorLog(bytes, k) == IF bytes < k THEN 0 ELSE 1 + floorLog(bytes \div k, k)

sizes == << "Bytes", "KB", "MB", "GB" >>

\* parseFloat(x.toFixed(2)) printed by string concatenation, for x = h / 100:
\* the integer part, then the decimals without trailing zeros
fixed2(h) ==
    ToString(h \div 100) \o
    (IF h % 100 = 0 THEN ""
     ELSE IF h % 10 = 0 THEN "." \o ToString((h % 100) \div 10)
     ELSE IF h % 100 < 10 THEN ".0" \o ToString(h % 100)
     ELSE "." \o ToString(h % 100))

\* formatFileSize(bytes)
formatFileSize(bytes) ==
    IF bytes = 0 THEN "0 Bytes"
    ELSE LET k == 1024
             i == floorLog(bytes, k)
             d == pow(k, i)
             \* bytes / d is exact in binary, toFixed rounds half up
             h == (2 * 100 * bytes + d) \div (2 * d)
         IN  fixed2(h) \o " " \o sizes[i + 1]

\* the dropzone's accept and maxSize options
maxSize == 200 * 1024 * 1024
\* String.prototype.endsWith
endsWith(s, suffix) ==
    /\ Len(s) >= Len(suffix)
    /\ SubSeq(s, Len(s) - Len(suffix) + 1, Len(s)) = suffix
\* a file passes when its type, lowered, is the listed MIME type or its
\* name, lowered, ends with the listed extension, and it is not larger than
\* maxSize.  Both are compared with ASCII strings, so of toLowerCase only
\* the code units that lower to ASCII matter: "A" to "Z" and the Kelvin
\* sign (U+212A, to "k"); every other code unit lowers to code units
\* outside ASCII, one but for U+0130 (to "i" and U+0307), and is kept
Accepted(f) ==
    LET lowered(t) ==
            [ k \in DOMAIN t |->
                IF t[k] \in 65..90 THEN t[k] + 32
                ELSE IF t[k] = 8490 THEN 107
                ELSE t[k] ]
    IN  /\ \/ lowered(f.type) = ApplicationPdf
           \/ endsWith(lowered(f.name), DotPdf)
        /\ f.size <= maxSize

RECURSIVE SelectSeq2(_)
SelectSeq2(s) ==
    IF s = <<>> THEN <<>>
    ELSE IF Accepted(Head(s)) THEN <<Head(s)>> \o SelectSeq2(Tail(s))
    ELSE SelectSeq2(Tail(s))

\* the files the dropzone hands to onDrop
acceptedFilesOf(dropped) == SelectSeq2(dropped)

\* acceptedFiles.map(file => ({name, size, status}))
newDocsOf(acceptedFiles) ==
    [ i \in 1..Len(acceptedFiles) |->
        [ name |-> acceptedFiles[i].name,
          size |-> formatFileSize(acceptedFiles[i].size),
          status |-> "processed" ] ]

\* body of POST /query built by queryDocuments
queryDocuments(query, chapterFilter, modelName) ==
    [ query |-> query, chapter_filter |-> chapterFilter, model_name |-> modelName ]

\* body of POST /generate-quiz built by generateQuiz
generateQuiz(chapter, numQuestions) ==
    [ chapter |-> chapter, num_questions |-> numQuestions ]


(***************************************************************************)
(* State.                                                                  *)
(***************************************************************************)
VARIABLES
    \* App
    activeTab, documents, chapters, selectedModel, isSidebarOpen, isLoading,
    \* Chat (exists while the chat tab is shown)
    messages, input, chatSelectedChapter,
    \* Quiz (exists while the quiz tab is shown)
    quizSelectedChapter, numQuestions, quiz,
    \* Sidebar (exists from its creation to the end of its exit animation)
    sidebarPresent, sidebarLoading, models, modelsPending,
    \* the props of a Sidebar in its exit animation that its controls read:
    \* those of the last render of App that showed it
    closedProps,
    \* requests awaiting the backend's response, in the order issued
    inflight,
    \* the user gesture or response handled by the latest step
    lastEvent

appVars == << activeTab, documents, chapters, selectedModel, isSidebarOpen, isLoading >>
chatVars == << messages, input, chatSelectedChapter >>
quizVars == << quizSelectedChapter, numQuestions, quiz >>
sidebarVars ==
    << sidebarPresent, sidebarLoading, models, modelsPending, closedProps >>
vars == << appVars, chatVars, quizVars, sidebarVars, inflight, lastEvent >>

\* the quiz panel holds no quiz
NoQuiz == <<>>

\* the option a select with these options shows for this value: the value
\* when it is an option, the first option otherwise
shownOption(options, value) ==
    IF \E k \in DOMAIN options : options[k] = value THEN value ELSE options[1]

\* closedProps while App renders the Sidebar or no Sidebar is there
NoProps == [ documents |-> <<>>, selectedModel |-> "" ]
\* the props the Sidebar was last rendered with: App renders it with its
\* current state while the sidebar is open and not at all once it is closed
\* (the chapters prop is only displayed and is left out)
sidebarProps ==
    IF isSidebarOpen
    THEN [ documents |-> documents, selectedModel |-> selectedModel ]
    ELSE closedProps

\* a gesture, and whether its control took it (a disabled control takes none)
Event(type, delivered) == [ type |-> type, delivered |-> delivered ]
\* a response, whether the panel that asked is still there, and its body
Response(type, delivered, data) ==
    [ type |-> type, delivered |-> delivered, data |-> data ]

\* s without its i-th element
RemoveAt(s, i) == SubSeq(s, 1, i - 1) \o SubSeq(s, i + 1, Len(s))

\* the requests of a panel that goes away lose their panel: the state
\* setters of an unmounted component no longer change anything
Orphan(reqs, kind) ==
    [ i \in DOMAIN reqs |->
        IF reqs[i].kind = kind THEN [ reqs[i] EXCEPT !.mounted = FALSE ]
        ELSE reqs[i] ]

RECURSIVE PendingFiles(_)
PendingFiles(reqs) ==
    IF reqs = <<>> THEN 0
    ELSE (IF Head(reqs).kind = "upload" THEN Len(Head(reqs).files) ELSE 0)
         + PendingFiles(Tail(reqs))

RECURSIVE LiveQueries(_)
LiveQueries(reqs) ==
    IF reqs = <<>> THEN 0
    ELSE (IF Head(reqs).kind = "query" /\ Head(reqs).mounted THEN 1 ELSE 0)
         + LiveQueries(Tail(reqs))

CanIssue == Len(inflight) < MaxInFlight

Init ==
    /\ activeTab = "upload"
    /\ documents = <<>>
    /\ chapters = <<>>
    /\ selectedModel = "gemini-1.5-flash"
    /\ isSidebarOpen = TRUE
    /\ isLoading = FALSE
    /\ messages = <<>>
    /\ input = <<>>
    /\ chatSelectedChapter = "All Chapters"
    /\ quizSelectedChapter = ""
    /\ numQuestions = Num(5)
    /\ quiz = NoQuiz
    /\ sidebarPresent = TRUE
    /\ sidebarLoading = FALSE
    /\ models = <<>>
    /\ modelsPending = TRUE
    /\ closedProps = NoProps
    /\ inflight = <<>>
    /\ lastEvent = Event("none", FALSE)

(***************************************************************************)
(* App and Navbar.                                                         *)
(***************************************************************************)
\* a tab button of the Navbar: renderContent replaces the shown panel
SetActiveTab(t) ==
    /\ t # activeTab
    /\ activeTab' = t
    /\ IF activeTab = "chat"
       THEN /\ messages' = <<>>
            /\ input' = <<>>
            /\ chatSelectedChapter' = "All Chapters"
            /\ inflight' = Orphan(inflight, "query")
            /\ UNCHANGED quizVars
       ELSE IF activeTab = "quiz"
       THEN /\ quizSelectedChapter' = ""
            /\ numQuestions' = Num(5)
            /\ quiz' = NoQuiz
            /\ inflight' = Orphan(inflight, "quiz")
            /\ UNCHANGED chatVars
       ELSE UNCHANGED << chatVars, quizVars, inflight >>
    /\ lastEvent' = Event("other", TRUE)
    /\ UNCHANGED << documents, chapters, selectedModel, isSidebarOpen, isLoading,
                    sidebarVars >>

\* the menu button.  Opening creates the Sidebar, whose effect calls
\* loadModels; a Sidebar still in its exit animation is kept as it is.
\* Closing starts the exit animation: AnimatePresence keeps the Sidebar
\* until the animation has ended.
toggleSidebar ==
    /\ isSidebarOpen' = ~isSidebarOpen
    /\ closedProps' = IF isSidebarOpen THEN sidebarProps ELSE NoProps
    /\ IF ~isSidebarOpen /\ ~sidebarPresent
       THEN /\ sidebarPresent' = TRUE
            /\ sidebarLoading' = FALSE
            /\ models' = <<>>
            /\ modelsPending' = TRUE
       ELSE UNCHANGED << sidebarPresent, sidebarLoading, models, modelsPending >>
    /\ lastEvent' = Event("other", TRUE)
    /\ UNCHANGED << activeTab, documents, chapters, selectedModel, isLoading,
                    chatVars, quizVars, inflight >>

\* the exit animation of a closed Sidebar ends: the Sidebar is removed
SidebarExitComplete ==
    /\ ~isSidebarOpen
    /\ sidebarPresent
    /\ sidebarPresent' = FALSE
    /\ sidebarLoading' = FALSE
    /\ models' = <<>>
    /\ modelsPending' = FALSE
    /\ closedProps' = NoProps
    /\ inflight' = Orphan(inflight, "clear")
    /\ lastEvent' = Event("other", TRUE)
    /\ UNCHANGED << appVars, chatVars, quizVars >>

(***************************************************************************)
(* Sidebar.                                                                *)
(***************************************************************************)
\* loadModels after GET /models answered: the catalog is kept, a failure
\* is only logged
ModelsDone(ok, data) ==
    /\ sidebarPresent
    /\ modelsPending
    /\ models' = IF ok THEN data ELSE models
    /\ modelsPending' = FALSE
    /\ lastEvent' = Response(IF ok THEN "models_ok" ELSE "models_failed", TRUE, Null)
    /\ UNCHANGED << appVars, chatVars, quizVars, sidebarPresent, sidebarLoading,
                    closedProps, inflight >>

\* an option of the AI Model select other than the one it shows is chosen
SetSelectedModel(m) ==
    /\ sidebarPresent
    /\ \E k \in DOMAIN models : models[k] = m
    /\ m # shownOption(models, sidebarProps.selectedModel)
    /\ selectedModel' = m
    /\ lastEvent' = Event("other", TRUE)
    /\ UNCHANGED << activeTab, documents, chapters, isSidebarOpen, isLoading,
                    chatVars, quizVars, sidebarVars, inflight >>

\* disabled attribute of the Clear All Data button
clearDisabled == sidebarLoading \/ Len(sidebarProps.documents) = 0

\* handleClearAll up to its await; confirmed is the answer to window.confirm
handleClearAll(confirmed) ==
    IF confirmed
    THEN /\ sidebarLoading' = TRUE
         /\ inflight' = Append(inflight,
                [ kind |-> "clear", mounted |-> TRUE,
                  documents0 |-> documents, chapters0 |-> chapters ])
    ELSE UNCHANGED << sidebarLoading, inflight >>

\* a click on Clear All Data
ClickClear(confirmed) ==
    /\ sidebarPresent
    /\ IF clearDisabled
       THEN /\ UNCHANGED << sidebarLoading, inflight >>
            /\ lastEvent' = Event("clear", FALSE)
       ELSE /\ confirmed => CanIssue
            /\ handleClearAll(confirmed)
            /\ lastEvent' = Event(IF confirmed THEN "clear" ELSE "clear_cancel", TRUE)
    /\ UNCHANGED << appVars, chatVars, quizVars, sidebarPresent, models,
                    modelsPending, closedProps >>

\* onClear of App
onClearDocumentsOnly ==
    /\ documents' = <<>>
    /\ UNCHANGED chapters
onClear ==
    /\ documents' = <<>>
    /\ chapters' = <<>>

\* handleClearAll after DELETE /clear failed: the catch block
handleClearAllFailedOptimistic == onClear
handleClearAllFailed == UNCHANGED << documents, chapters >>

\* handleClearAll after DELETE /clear answered
ClearDone(i, ok) ==
    /\ i \in DOMAIN inflight
    /\ inflight[i].kind = "clear"
    /\ IF ok THEN onClear ELSE handleClearAllFailed
    /\ sidebarLoading' = IF inflight[i].mounted THEN FALSE ELSE sidebarLoading
    /\ inflight' = RemoveAt(inflight, i)
    /\ lastEvent' = Response(IF ok THEN "clear_ok" ELSE "clear_failed",
                              inflight[i].mounted, Null)
    /\ UNCHANGED << activeTab, selectedModel, isSidebarOpen, isLoading,
                    chatVars, quizVars, sidebarPresent, models, modelsPending,
                    closedProps >>

(***************************************************************************)
(* Upload panel.                                                           *)
(***************************************************************************)
\* onDrop up to its await
onDropAnyBatch(acceptedFiles) ==
    /\ isLoading' = TRUE
    /\ inflight' = Append(inflight, [ kind |-> "upload", files |-> acceptedFiles ])
onDrop(acceptedFiles) ==
    IF Len(acceptedFiles) = 0
    THEN UNCHANGED << isLoading, inflight >>
    ELSE /\ isLoading' = TRUE
         /\ inflight' = Append(inflight, [ kind |-> "upload", files |-> acceptedFiles ])

\* files dropped on, or picked through, the dropzone
Drop(dropped) ==
    /\ activeTab = "upload"
    /\ LET acceptedFiles == acceptedFilesOf(dropped)
       IN  /\ Len(acceptedFiles) > 0 =>
                /\ CanIssue
                /\ Len(documents) + PendingFiles(inflight) + Len(acceptedFiles) <= MaxDocs
           /\ onDrop(acceptedFiles)
    /\ lastEvent' = Event("drop", TRUE)
    /\ UNCHANGED << activeTab, documents, chapters, selectedModel, isSidebarOpen,
                    chatVars, quizVars, sidebarVars >>

\* onDrop after POST /upload succeeded with result.chapters = resultChapters
onDropSuccessPrepend(acceptedFiles, resultChapters) ==
    /\ documents' = newDocsOf(acceptedFiles) \o documents
    /\ chapters' = resultChapters
onDropSuccess(acceptedFiles, resultChapters) ==
    /\ documents' = documents \o newDocsOf(acceptedFiles)
    /\ chapters' = resultChapters

\* onDrop after POST /upload failed: the catch block
onDropFailurePartial(acceptedFiles) ==
    /\ documents' = documents \o newDocsOf(acceptedFiles)
    /\ UNCHANGED chapters
onDropFailure(acceptedFiles) == UNCHANGED << documents, chapters >>

\* onDrop's finally block; others tells whether other requests are in flight
onDropFinallyCounted(others) == isLoading' = others
onDropFinally(others) == isLoading' = FALSE

\* onDrop after POST /upload answered
UploadDone(i, ok, resultChapters) ==
    /\ i \in DOMAIN inflight
    /\ inflight[i].kind = "upload"
    /\ IF ok THEN onDropSuccess(inflight[i].files, resultChapters)
       ELSE onDropFailure(inflight[i].files)
    /\ onDropFinally(Len(inflight) > 1)
    /\ inflight' = RemoveAt(inflight, i)
    /\ lastEvent' = Response(IF ok THEN "upload_ok" ELSE "upload_failed", TRUE,
                              IF ok THEN resultChapters ELSE Null)
    /\ UNCHANGED << activeTab, selectedModel, isSidebarOpen,
                    chatVars, quizVars, sidebarVars >>

(***************************************************************************)
(* Chat panel.                                                             *)
(***************************************************************************)
\* the textarea's onChange
SetInput(text) ==
    /\ activeTab = "chat"
    /\ ~isLoading
    /\ text # input
    /\ input' = text
    /\ lastEvent' = Event("other", TRUE)
    /\ UNCHANGED << appVars, messages, chatSelectedChapter, quizVars, sidebarVars,
                    inflight >>

\* options of the chat panel's chapter filter
chatOptions == << "All Chapters" >> \o chapters

\* the chapter filter's onChange
SetChatChapter(c) ==
    /\ activeTab = "chat"
    /\ \E k \in DOMAIN chatOptions : chatOptions[k] = c
    /\ c # shownOption(chatOptions, chatSelectedChapter)
    /\ chatSelectedChapter' = c
    /\ lastEvent' = Event("other", TRUE)
    /\ UNCHANGED << appVars, messages, input, quizVars, sidebarVars, inflight >>

\* selectedChapter === 'All Chapters' ? null : selectedChapter
chapterFilterOfVerbatim(selectedChapter) == selectedChapter
chapterFilterOf(selectedChapter) ==
    IF selectedChapter = "All Chapters" THEN Null ELSE selectedChapter

userMessageOf(text) == [ role |-> "user", content |-> text ]

aiMessageOf(response) ==
    [ role |-> "assistant", content |-> response.answer,
      sources |-> response.sources, model |-> response.model_used ]

\* handleSend up to its await
handleSend ==
    IF IsBlank(input)
    THEN UNCHANGED << messages, input, isLoading, inflight >>
    ELSE /\ messages' = Append(messages, userMessageOf(input))
         /\ input' = <<>>
         /\ isLoading' = TRUE
         /\ inflight' = Append(inflight,
                [ kind |-> "query", mounted |-> TRUE,
                  body |-> queryDocuments(input, chapterFilterOf(chatSelectedChapter),
                                          selectedModel),
                  \* kept for the properties: the panel's state at submit time
                  messages0 |-> messages, selectedChapter0 |-> chatSelectedChapter ])

\* no send is made that the bounds have no room for
SendFits ==
    IsBlank(input) \/
        (CanIssue /\ Len(messages) + LiveQueries(inflight) + 2 <= MaxMsgs)

\* disabled attribute of the send button
sendDisabled == isLoading \/ IsBlank(input)

\* a click on the send button
ClickSend ==
    /\ activeTab = "chat"
    /\ IF sendDisabled
       THEN /\ UNCHANGED << messages, input, isLoading, inflight >>
            /\ lastEvent' = Event("send", FALSE)
       ELSE /\ SendFits
            /\ handleSend
            /\ lastEvent' = Event("send", TRUE)
    /\ UNCHANGED << activeTab, documents, chapters, selectedModel, isSidebarOpen,
                    chatSelectedChapter, quizVars, sidebarVars >>

\* handleKeyPress: a key pressed in the textarea, which takes keys while enabled
KeyPress(key, shiftKey) ==
    /\ activeTab = "chat"
    /\ ~isLoading
    /\ IF key = "Enter" /\ ~shiftKey
       THEN /\ SendFits
            /\ handleSend
            /\ lastEvent' = Event("send", TRUE)
       ELSE /\ UNCHANGED << messages, input, isLoading, inflight >>
            /\ lastEvent' = Event("other", TRUE)
    /\ UNCHANGED << activeTab, documents, chapters, selectedModel, isSidebarOpen,
                    chatSelectedChapter, quizVars, sidebarVars >>

\* handleSend after POST /query failed: the catch block
handleSendFailed == messages' = messages

\* handleSend's finally block; ok tells whether the try block completed
handleSendFinallyOnSuccess(ok) == isLoading' = IF ok THEN FALSE ELSE isLoading
handleSendFinally(ok) == isLoading' = FALSE

\* handleSend after POST /query answered
QueryDone(i, ok, response) ==
    /\ i \in DOMAIN inflight
    /\ inflight[i].kind = "query"
    /\ IF ok
       THEN messages' = IF inflight[i].mounted
                        THEN Append(messages, aiMessageOf(response))
                        ELSE messages
       ELSE handleSendFailed
    /\ handleSendFinally(ok)
    /\ inflight' = RemoveAt(inflight, i)
    /\ lastEvent' = Response(IF ok THEN "query_ok" ELSE "query_failed",
                              inflight[i].mounted, IF ok THEN response ELSE Null)
    /\ UNCHANGED << activeTab, documents, chapters, selectedModel, isSidebarOpen,
                    input, chatSelectedChapter, quizVars, sidebarVars >>

(***************************************************************************)
(* Quiz panel.                                                             *)
(***************************************************************************)
\* options of the quiz panel's chapter select
quizOptions == << "" >> \o chapters

\* the chapter select's onChange
SetQuizChapter(c) ==
    /\ activeTab = "quiz"
    /\ ~isLoading
    /\ \E k \in DOMAIN quizOptions : quizOptions[k] = c
    /\ c # shownOption(quizOptions, quizSelectedChapter)
    /\ quizSelectedChapter' = c
    /\ lastEvent' = Event("other", TRUE)
    /\ UNCHANGED << appVars, chatVars, numQuestions, quiz, sidebarVars, inflight >>

\* the question-count input's onChange: setNumQuestions(parseInt(e.target.value))
SetNumQuestions(text) ==
    /\ activeTab = "quiz"
    /\ ~isLoading
    /\ numQuestions' = parseInt(text)
    /\ numQuestions' # numQuestions
    /\ lastEvent' = Event("other", TRUE)
    /\ UNCHANGED << appVars, chatVars, quizSelectedChapter, quiz, sidebarVars,
                    inflight >>

\* !selectedChapter
chapterMissingNever(selectedChapter) == FALSE
chapterMissing(selectedChapter) == selectedChapter = ""

\* handleGenerateQuiz up to its await
handleGenerateQuiz ==
    IF chapterMissing(quizSelectedChapter)
    THEN UNCHANGED << isLoading, inflight >>
    ELSE /\ isLoading' = TRUE
         /\ inflight' = Append(inflight,
                [ kind |-> "quiz", mounted |-> TRUE,
                  body |-> generateQuiz(quizSelectedChapter, numQuestions) ])

\* disabled attribute of the Generate Quiz button
generateDisabled == isLoading \/ chapterMissing(quizSelectedChapter)

\* a click on Generate Quiz
ClickGenerate ==
    /\ activeTab = "quiz"
    /\ IF generateDisabled
       THEN /\ UNCHANGED << isLoading, inflight >>
            /\ lastEvent' = Event("generate", FALSE)
       ELSE /\ CanIssue
            /\ handleGenerateQuiz
            /\ lastEvent' = Event("generate", TRUE)
    /\ UNCHANGED << activeTab, documents, chapters, selectedModel, isSidebarOpen,
                    chatVars, quizVars, sidebarVars >>

\* handleGenerateQuiz after POST /generate-quiz answered
QuizDone(i, ok, response) ==
    /\ i \in DOMAIN inflight
    /\ inflight[i].kind = "quiz"
    /\ quiz' = IF ok /\ inflight[i].mounted THEN << response >> ELSE quiz
    /\ isLoading' = FALSE
    /\ inflight' = RemoveAt(inflight, i)
    /\ lastEvent' = Response(IF ok THEN "quiz_ok" ELSE "quiz_failed",
                              inflight[i].mounted, IF ok THEN response ELSE Null)
    /\ UNCHANGED << activeTab, documents, chapters, selectedModel, isSidebarOpen,
                    chatVars, quizSelectedChapter, numQuestions, sidebarVars >>

\* the New Quiz button, shown while a quiz is held
NewQuiz ==
    /\ activeTab = "quiz"
    /\ quiz # NoQuiz
    /\ quiz' = NoQuiz
    /\ lastEvent' = Event("other", TRUE)
    /\ UNCHANGED << appVars, chatVars, quizSelectedChapter, numQuestions,
                    sidebarVars, inflight >>

(***************************************************************************)
(* Specifications.  Each runs the operations of one part of the            *)
(* application together with the operations that share state with it;      *)
(* Spec runs all of them with the smallest selections.                     *)
(***************************************************************************)
\* selections of one file and backends that report one chapter, for the
\* runs that are not about the content of an upload
OneFile == { f \in Files : f.name = NotesPdf }
OneChapterList == { << "Ch1" >> }

SidebarOps ==
    \/ toggleSidebar
    \/ SidebarExitComplete
    \/ \E ok \in BOOLEAN, data \in ModelCatalogs : ModelsDone(ok, data)
    \/ \E m \in ModelKeys : SetSelectedModel(m)

ClearOps ==
    \/ \E confirmed \in BOOLEAN : ClickClear(confirmed)
    \/ \E i \in 1..MaxInFlight, ok \in BOOLEAN : ClearDone(i, ok)

UploadOps(files, batch, chapterLists) ==
    \/ \E dropped \in SeqsUpTo(files, batch) : Drop(dropped)
    \/ \E i \in 1..MaxInFlight, ok \in BOOLEAN, c \in chapterLists : UploadDone(i, ok, c)

ChatOps ==
    \/ \E text \in Inputs : SetInput(text)
    \/ \E c \in { "All Chapters" } \cup ChapterLabels : SetChatChapter(c)
    \/ ClickSend
    \/ \E key \in Keys, shiftKey \in BOOLEAN : KeyPress(key, shiftKey)
    \/ \E i \in 1..MaxInFlight, ok \in BOOLEAN, r \in QueryResponses : QueryDone(i, ok, r)

QuizOps ==
    \/ \E c \in { "" } \cup ChapterLabels : SetQuizChapter(c)
    \/ \E text \in NumTexts : SetNumQuestions(text)
    \/ ClickGenerate
    \/ \E i \in 1..MaxInFlight, ok \in BOOLEAN, r \in QuizResponses : QuizDone(i, ok, r)
    \/ NewQuiz

\* the upload panel, with every selection of files
NextUpload ==
    \/ \E t \in Tabs : SetActiveTab(t)
    \/ UploadOps(Files, MaxBatch, ChapterLists)
SpecUpload == Init /\ [][NextUpload]_vars

\* documents and chapters: uploads and clear-all
NextShared ==
    \/ toggleSidebar
    \/ SidebarExitComplete
    \/ ClearOps
    \/ UploadOps(OneFile, 1, ChapterLists)
SpecShared == Init /\ [][NextShared]_vars

\* the Sidebar with its model catalog, and the uploads and clears that
\* change the lists it is given
NextSidebar == SidebarOps \/ ClearOps \/ UploadOps(OneFile, 1, OneChapterList)
SpecSidebar == Init /\ [][NextSidebar]_vars

\* the chat panel, with the uploads that share the loading flag and feed
\* the chapter filter
NextChat ==
    \/ \E t \in { "upload", "chat" } : SetActiveTab(t)
    \/ UploadOps(OneFile, 1, OneChapterList)
    \/ ChatOps
SpecChat == Init /\ [][NextChat]_vars

\* the quiz panel, with the uploads that share the loading flag and feed
\* the chapter select
NextQuiz ==
    \/ \E t \in { "upload", "quiz" } : SetActiveTab(t)
    \/ UploadOps(OneFile, 1, OneChapterList)
    \/ QuizOps
SpecQuiz == Init /\ [][NextQuiz]_vars

\* the three panels and the loading flag they share; every request in
\* flight is answered in the end
Respond ==
    \E i \in 1..MaxInFlight, ok \in BOOLEAN :
        \/ \E c \in OneChapterList : UploadDone(i, ok, c)
        \/ \E r \in QueryResponses : QueryDone(i, ok, r)
        \/ \E r \in QuizResponses : QuizDone(i, ok, r)
NextLoading ==
    \/ \E t \in Tabs : SetActiveTab(t)
    \/ \E dropped \in SeqsUpTo(OneFile, 1) : Drop(dropped)
    \/ \E text \in { << 32, 113 >> } : SetInput(text)
    \/ ClickSend
    \/ \E c \in { "Ch1" } : SetQuizChapter(c)
    \/ ClickGenerate
    \/ Respond
SpecLoading == Init /\ [][NextLoading]_vars /\ WF_vars(Respond)

Next ==
    \/ \E t \in Tabs : SetActiveTab(t)
    \/ SidebarOps
    \/ ClearOps
    \/ UploadOps(OneFile, 1, OneChapterList)
    \/ ChatOps
    \/ QuizOps
Spec == Init /\ [][Next]_vars

(***************************************************************************)
(* Properties of the shared document and chapter lists.                    *)
(***************************************************************************)
\* a is a prefix of b
IsPrefix(a, b) == Len(a) <= Len(b) /\ SubSeq(b, 1, Len(a)) = a

\* the step handles the response to request i, of the given kind
Completes(i, kind) ==
    /\ i \in DOMAIN inflight
    /\ inflight[i].kind = kind
    /\ inflight' = RemoveAt(inflight, i)

\* C1: the step that handles a successful upload response leaves the
\* document list equal to its value before the step followed by one
\* descriptor per file of the batch, in the batch's order, and the chapter
\* list equal to the chapters of the response, whatever else is in flight.
C1_UploadAppendsBatch ==
    [][ lastEvent'.type = "upload_ok" =>
          \E i \in DOMAIN inflight :
             /\ Completes(i, "upload")
             /\ Len(documents') = Len(documents) + Len(inflight[i].files)
             /\ SubSeq(documents', 1, Len(documents)) = documents
             /\ \A j \in 1..Len(inflight[i].files) :
                    /\ documents'[Len(documents) + j].name = inflight[i].files[j].name
                    /\ documents'[Len(documents) + j].status = "processed"
             /\ chapters' = lastEvent'.data ]_vars

\* an upload succeeded while another upload was in flight, and the list
\* holds two different documents in the order submitted
C1_Witness ==
    /\ lastEvent.type = "upload_ok"
    /\ Len(documents) = 2
    /\ documents[1].name = Ch2Pdf
    /\ documents[2].name = NotesPdf
    /\ chapters = << "Ch1", "Ch2" >>
    /\ \E i \in DOMAIN inflight : inflight[i].kind = "upload"

\* C8: the step that handles a failed upload response changes neither the
\* document list nor the chapter list.
C8_UploadFailureKeepsLists ==
    [][ lastEvent'.type = "upload_failed" => UNCHANGED << documents, chapters >> ]_vars

\* an upload failed while documents and chapters were held
C8_Witness ==
    /\ lastEvent.type = "upload_failed"
    /\ documents # <<>>
    /\ chapters # <<>>

\* C4 as stated: a successful clear empties both lists, a failed clear
\* leaves both lists at the values they had when the clear was started, a
\* cancelled confirmation issues no request and changes neither list.
C4_ClearAsStated ==
    [][ /\ lastEvent'.type = "clear_ok" => documents' = <<>> /\ chapters' = <<>>
        /\ lastEvent'.type = "clear_failed" =>
              \E i \in DOMAIN inflight :
                 /\ Completes(i, "clear")
                 /\ documents' = inflight[i].documents0
                 /\ chapters' = inflight[i].chapters0
        /\ lastEvent'.type = "clear_cancel" =>
              UNCHANGED << documents, chapters, inflight >> ]_vars

\* C4 amended: a successful clear empties both lists, the step that handles
\* a failed clear changes neither list, a cancelled confirmation issues no
\* request and changes neither list.
C4_ClearAmended ==
    [][ /\ lastEvent'.type = "clear_ok" => documents' = <<>> /\ chapters' = <<>>
        /\ lastEvent'.type = "clear_failed" => UNCHANGED << documents, chapters >>
        /\ lastEvent'.type = "clear_cancel" =>
              UNCHANGED << documents, chapters, inflight >> ]_vars

\* a clear failed after an upload that completed during it
C4_Witness ==
    /\ lastEvent.type = "clear_failed"
    /\ Len(documents) >= 2
    /\ chapters # <<>>

\* C9 as stated: in every step each of the two lists keeps its value as a
\* prefix or becomes empty, and a list that becomes empty does so together
\* with the other.
C9_ListsAsStated ==
    [][ /\ IsPrefix(documents, documents') \/ documents' = <<>>
        /\ IsPrefix(chapters, chapters') \/ chapters' = <<>>
        /\ (documents # <<>> /\ documents' = <<>>) => chapters' = <<>>
        /\ (chapters # <<>> /\ chapters' = <<>>) => documents' = <<>> ]_vars

\* C9 amended: in every step the document list keeps its value as a prefix
\* or becomes empty, and when it becomes empty the chapter list is empty
\* after the same step.
C9_DocumentsGrowOrReset ==
    [][ /\ IsPrefix(documents, documents') \/ documents' = <<>>
        /\ (documents # <<>> /\ documents' = <<>>) => chapters' = <<>> ]_vars

\* a clear succeeded and left both lists empty
C9_Witness ==
    /\ lastEvent.type = "clear_ok"
    /\ documents = <<>>
    /\ chapters = <<>>

(***************************************************************************)
(* Properties of the chat panel.                                           *)
(***************************************************************************)
\* text is empty or made of whitespace only
OnlyWhiteSpace(text) == \A k \in DOMAIN text : text[k] \in WhiteSpace

\* C2: the step that handles a successful query response leaves the history
\* equal to the history just before that query was submitted followed by
\* the user message (content = the input) and the assistant message
\* (content, sources and model of the response), whatever happened while
\* the query was in flight.
C2_HistoryAfterQuery ==
    [][ lastEvent'.type = "query_ok" =>
          \E i \in DOMAIN inflight :
             /\ Completes(i, "query")
             /\ messages' = inflight[i].messages0 \o
                   << [ role |-> "user", content |-> inflight[i].body.query ],
                      [ role |-> "assistant",
                        content |-> lastEvent'.data.answer,
                        sources |-> lastEvent'.data.sources,
                        model |-> lastEvent'.data.model_used ] >> ]_vars

\* C3: a click on the send button or Enter without Shift, made while the
\* input is empty or whitespace only, issues no request, leaves the history
\* as it is and does not change the loading flag.
C3_BlankInputSendsNothing ==
    [][ (lastEvent'.type = "send" /\ OnlyWhiteSpace(input)) =>
          UNCHANGED << messages, inflight, isLoading >> ]_vars

\* Enter was pressed on an input of whitespace, which is still there
C3_Witness ==
    /\ lastEvent = Event("send", TRUE)
    /\ input # <<>>
    /\ OnlyWhiteSpace(input)
    /\ ~isLoading

\* C5: every query request in flight carries chapter_filter null exactly
\* when the filter selected at submit time was "All Chapters", and carries
\* the selected label itself otherwise.
C5_ChapterFilterSent ==
    \A i \in DOMAIN inflight :
        inflight[i].kind = "query" =>
            /\ inflight[i].body.chapter_filter = Null
                   <=> inflight[i].selectedChapter0 = "All Chapters"
            /\ inflight[i].selectedChapter0 # "All Chapters" =>
                   inflight[i].body.chapter_filter = inflight[i].selectedChapter0

\* two queries are in flight, one sent with a chapter selected and one
\* sent with "All Chapters"
C5_Witness ==
    /\ \E i \in DOMAIN inflight :
          inflight[i].kind = "query" /\ inflight[i].selectedChapter0 = "Ch1"
    /\ \E i \in DOMAIN inflight :
          inflight[i].kind = "query" /\ inflight[i].selectedChapter0 = "All Chapters"

\* C10: in every step the chat history keeps its previous value as a
\* prefix.
C10_HistoryAppendOnly ==
    [][ IsPrefix(messages, messages') ]_vars

(***************************************************************************)
(* Properties of the quiz panel.                                           *)
(***************************************************************************)
\* C6: every quiz request in flight carries a num_questions that is an
\* integer from 1 to 10.
C6_QuestionCountInRange ==
    \A i \in DOMAIN inflight :
        inflight[i].kind = "quiz" =>
            /\ ~inflight[i].body.num_questions.nan
            /\ inflight[i].body.num_questions.val \in 1..10

\* C7: a click on Generate Quiz made while no chapter is selected issues
\* no request and changes neither the loading flag nor the held quiz, and
\* every quiz request in flight carries a non-empty chapter.
C7_NoChapterNoQuiz ==
    [][ /\ (lastEvent'.type = "generate" /\ quizSelectedChapter = "") =>
              UNCHANGED << inflight, isLoading, quiz >>
        /\ \A i \in DOMAIN inflight' :
              inflight'[i].kind = "quiz" => inflight'[i].body.chapter # "" ]_vars

\* Generate Quiz was clicked with no chapter selected, while a quiz request
\* made earlier from this panel is in flight
C7_Witness ==
    /\ lastEvent.type = "generate"
    /\ activeTab = "quiz"
    /\ quizSelectedChapter = ""
    /\ \E i \in DOMAIN inflight : inflight[i].kind = "quiz" /\ inflight[i].mounted

\* C11: the step that handles a failed query response leaves the history
\* as it is, with the user message of that query in it and no assistant
\* message appended, issues no request and leaves the loading flag false.
C11_FailedQueryKeepsUserMessage ==
    [][ lastEvent'.type = "query_failed" =>
          \E i \in DOMAIN inflight :
             /\ Completes(i, "query")
             /\ messages' = messages
             /\ \E k \in DOMAIN messages' :
                    messages'[k] = [ role |-> "user", content |-> inflight[i].body.query ]
             /\ isLoading' = FALSE ]_vars

\* C15: at most one query request is in flight.
C15_OneQueryInFlight ==
    Cardinality({ i \in DOMAIN inflight : inflight[i].kind = "query" }) <= 1

(***************************************************************************)
(* Properties of the relation between documents and chapters.              *)
(***************************************************************************)
\* C14: a non-empty chapter list comes with a non-empty document list.
C14_ChaptersNeedDocuments ==
    chapters # <<>> => documents # <<>>

\* an upload succeeded after a clear had emptied the lists, while a clear
\* is in flight, and chapters and documents are both held
C14_Witness ==
    /\ lastEvent.type = "upload_ok"
    /\ chapters # <<>>
    /\ Len(documents) = 1
    /\ \E i \in DOMAIN inflight : inflight[i].kind = "clear"

(***************************************************************************)
(* Properties of the shared loading flag.                                  *)
(***************************************************************************)
\* the requests the panels make under the loading flag
PanelKinds == { "upload", "query", "quiz" }
\* the events that are the responses to them
PanelResponses ==
    { "upload_ok", "upload_failed", "query_ok", "query_failed", "quiz_ok", "quiz_failed" }
\* a request of a panel is in flight
PanelRequestInFlight(reqs) == \E i \in DOMAIN reqs : reqs[i].kind \in PanelKinds

\* C12: the step that handles the response to one panel request leaves the
\* loading flag false also when other panel requests are still in flight,
\* so the flag can be false while a request has not completed.
C12_FlagClearedWhileOthersInFlight ==
    [][ (lastEvent'.type \in PanelResponses /\ PanelRequestInFlight(inflight')) =>
          isLoading' = FALSE ]_vars

\* a quiz generation has completed and the flag is false while an upload
\* is still in flight
C12_Witness ==
    /\ lastEvent.type \in { "quiz_ok", "quiz_failed" }
    /\ ~isLoading
    /\ \E i \in DOMAIN inflight : inflight[i].kind = "upload"

\* C13: every step that starts an upload, a query or a quiz generation
\* leaves the flag true and every step that handles the response to one,
\* successful or failed, leaves it false; the flag is true only while such
\* a request is in flight; and when every request is answered in the end, a
\* flag that is true becomes false.
C13_FlagFollowsRequests ==
    /\ [][ /\ (Len(inflight') = Len(inflight) + 1
                 /\ inflight'[Len(inflight')].kind \in PanelKinds) => isLoading'
           /\ lastEvent'.type \in PanelResponses => ~isLoading' ]_vars
    /\ [](isLoading => PanelRequestInFlight(inflight))
    /\ (isLoading ~> ~isLoading)

\* a failed query left the flag false with nothing in flight
C13_Witness ==
    /\ lastEvent.type = "query_failed"
    /\ ~lastEvent.delivered
    /\ ~isLoading
    /\ inflight = <<>>

====
